---- MODULE Spec2Model ----
(***************************************************************************)
(* Model of sktime/performance_metrics/forecasting.py: the two forecasting *)
(* scores mase_score and smape_score.                                      *)
(*                                                                         *)
(* A pandas Series is a record [index, values]: the time index is a        *)
(* sequence of timestamps, the values a sequence of integers (floats with  *)
(* integral values).  A float is a record [n, d]: the rational n/d in      *)
(* lowest terms when d > 0, and the IEEE-754 special values when d = 0     *)
(* (n = 0: NaN, n = 1: +inf, n = -1: -inf).  Arithmetic on finite values   *)
(* is exact: binary64 rounding and overflow are outside the model.         *)
(*                                                                         *)
(* One call is one behaviour: Init draws the function and its arguments,   *)
(* the call action stores what the call returns or raises.                 *)
(***************************************************************************)
EXTENDS Integers, Sequences, FiniteSets

VARIABLES fn, y_true, y_pred, y_train, sp, pc, result

vars == <<fn, y_true, y_pred, y_train, sp, pc, result>>

(* ------------------------------ bounds -------------------------------- *)
MaxTime == 2        \* timestamps of the index inputs are 0..MaxTime
MaxIdxLen == 2      \* longest time index of the index inputs
MaxFh == 2          \* longest forecasting horizon of the value inputs
MaxVal == 2         \* smape values are -MaxVal..MaxVal
MaxObs == 3         \* longest training series of the value inputs; sp is 1..MaxObs
MaxTrainVal == 1    \* mase values are 0..MaxTrainVal
MaxScale == 3       \* scaling constants are 2..MaxScale

(* ------------------------- float arithmetic --------------------------- *)
Abs(x) == IF x < 0 THEN -x ELSE x

Sgn(x) == IF x < 0 THEN -1 ELSE IF x > 0 THEN 1 ELSE 0

RECURSIVE GCD(_, _)
GCD(a, b) == IF b = 0 THEN a ELSE GCD(b, a % b)

NaN == [n |-> 0, d |-> 0]
PInf == [n |-> 1, d |-> 0]
NInf == [n |-> -1, d |-> 0]

IsNaN(x) == x.d = 0 /\ x.n = 0
IsInf(x) == x.d = 0 /\ x.n # 0
IsFinite(x) == x.d > 0

\* the float n/d, d > 0, in lowest terms
Norm(n, d) == LET g == GCD(Abs(n), d) IN [n |-> n \div g, d |-> d \div g]

FromInt(i) == [n |-> i, d |-> 1]

FNeg(x) == [n |-> -x.n, d |-> x.d]

FAdd(x, y) ==
    IF IsNaN(x) \/ IsNaN(y) THEN NaN
    ELSE IF IsInf(x) /\ IsInf(y) THEN (IF x.n = y.n THEN x ELSE NaN)
    ELSE IF IsInf(x) THEN x
    ELSE IF IsInf(y) THEN y
    ELSE Norm(x.n * y.d + y.n * x.d, x.d * y.d)

FMul(x, y) ==
    IF IsNaN(x) \/ IsNaN(y) THEN NaN
    ELSE IF IsInf(x) \/ IsInf(y) THEN [n |-> Sgn(x.n) * Sgn(y.n), d |-> 0]
    ELSE Norm(x.n * y.n, x.d * y.d)

\* faulty variant of FDiv: a zero divisor is guarded and yields 0
FDivGuarded(x, y) ==
    IF IsNaN(x) \/ IsNaN(y) THEN NaN
    ELSE IF IsInf(y) THEN (IF IsInf(x) THEN NaN ELSE FromInt(0))
    ELSE IF y.n = 0 THEN FromInt(0)
    ELSE IF IsInf(x) THEN [n |-> x.n * Sgn(y.n), d |-> 0]
    ELSE Norm(x.n * y.d * Sgn(y.n), x.d * Abs(y.n))

\* IEEE-754 division as numpy performs it: x/0 is a signed infinity, 0/0 is
\* NaN, and nothing is raised.  Every zero divisor of this module is a sum or
\* a mean of absolute values, hence +0.0.
FDiv(x, y) ==
    IF IsNaN(x) \/ IsNaN(y) THEN NaN
    ELSE IF IsInf(y) THEN (IF IsInf(x) THEN NaN ELSE FromInt(0))
    ELSE IF y.n = 0 THEN [n |-> Sgn(x.n), d |-> 0]
    ELSE IF IsInf(x) THEN [n |-> x.n * Sgn(y.n), d |-> 0]
    ELSE Norm(x.n * y.d * Sgn(y.n), x.d * Abs(y.n))

FLeq(x, y) == x.n * y.d <= y.n * x.d      \* finite x, y only

(* --------------------------- array helpers ---------------------------- *)
RECURSIVE FSum(_)
FSum(s) == IF s = <<>> THEN FromInt(0)
           ELSE FAdd(FSum(SubSeq(s, 1, Len(s) - 1)), s[Len(s)])

SelectNotNaN(s) == SelectSeq(s, LAMBDA x : ~IsNaN(x))

Floats(s) == [i \in 1..Len(s) |-> FromInt(s[i])]

\* numpy basic slicing a[k:] and a[:k], k possibly negative
Clip(k, len) == IF k < 0 THEN (IF len + k < 0 THEN 0 ELSE len + k)
                ELSE IF k > len THEN len ELSE k

SliceFrom(a, k) == SubSeq(a, Clip(k, Len(a)) + 1, Len(a))

SliceTo(a, k) == SubSeq(a, 1, Clip(k, Len(a)))

\* elementwise a - b of two arrays of one length
np_sub(a, b) == [i \in 1..Len(a) |-> a[i] - b[i]]

np_abs(a) == [i \in 1..Len(a) |-> Abs(a[i])]

np_add(a, b) == [i \in 1..Len(a) |-> a[i] + b[i]]

\* elementwise true division of two integer arrays
np_div(a, b) == [i \in 1..Len(a) |-> FDiv(FromInt(a[i]), FromInt(b[i]))]

\* faulty variant of np_mean: the mean of an empty array is 0
np_mean_empty_zero(a) == IF a = <<>> THEN FromInt(0) ELSE FDiv(FSum(a), FromInt(Len(a)))

\* np.mean of an ndarray: sum / count; NaN propagates, and the mean of an
\* empty array is 0.0/0 = NaN (with a RuntimeWarning, no exception)
np_mean(a) == FDiv(FSum(a), FromInt(Len(a)))

\* np.mean of a pandas Series: numpy hands the call to Series.mean(), whose
\* skipna defaults to True: NaN entries are left out of sum and count, and a
\* Series with no entry left has mean NaN
series_mean(a) == np_mean(SelectNotNaN(a))

(* ------------------------------ results ------------------------------- *)
NoResult == [kind |-> "none", err |-> "", score |-> NaN]
Raise(e) == [kind |-> "raise", err |-> e, score |-> NaN]
Return(x) == [kind |-> "return", err |-> "", score |-> x]

(* ------------------- sktime.utils.validation.forecasting -------------- *)
\* TRUE iff the call raises: the two time indices differ
check_consistent_time_indices(a, b) == a.index # b.index

\* TRUE iff the index is a well-formed horizon (monotonically ordered);
\* the validated index itself is what the call returns
validate_obs_horizon(index) ==
    \A i, j \in 1..Len(index) : i < j => index[i] <= index[j]

IndexMax(index) == CHOOSE t \in {index[i] : i \in 1..Len(index)} :
                       \A i \in 1..Len(index) : index[i] <= t

IndexMin(index) == CHOOSE t \in {index[i] : i \in 1..Len(index)} :
                       \A i \in 1..Len(index) : t <= index[i]

(* ----------------------------- mase_score ----------------------------- *)
\* faulty variant of not_before: equal timestamps are let through
not_before_strict(train_index, pred_index) == IndexMax(train_index) > IndexMin(pred_index)

\* line 38: the training series is not before the forecasted series
not_before(train_index, pred_index) == IndexMax(train_index) >= IndexMin(pred_index)

\* faulty variant of mae_naive: the lag is 1 whatever sp is
mae_naive_lag1(train, s) ==
    np_mean(Floats(np_abs(np_sub(SliceFrom(train, 1), SliceTo(train, -1)))))

\* lines 43-47: mean absolute error of the naive seasonal prediction
mae_naive(train, s) ==
    LET y_pred_naive == SliceTo(train, -s)
    IN  np_mean(Floats(np_abs(np_sub(SliceFrom(train, s), y_pred_naive))))

\* faulty variant of mase_validate: the index consistency is checked last
mase_validate_order_first(yt, yp, ytr) ==
    IF ~validate_obs_horizon(ytr.index) THEN "InvalidHorizonError"
    ELSE IF ~validate_obs_horizon(yp.index) THEN "InvalidHorizonError"
    ELSE IF not_before(ytr.index, yp.index) THEN "ValueError"
    ELSE IF check_consistent_time_indices(yt, yp) THEN "InconsistentIndexError"
    ELSE ""

\* lines 33-40: what the validation raises, "" when it passes.  Line 37 hands
\* validate_obs_horizon the Series y_pred itself; what comes back is its
\* validated time index.
mase_validate(yt, yp, ytr) ==
    IF check_consistent_time_indices(yt, yp) THEN "InconsistentIndexError"
    ELSE IF ~validate_obs_horizon(ytr.index) THEN "InvalidHorizonError"
    ELSE IF ~validate_obs_horizon(yp.index) THEN "InvalidHorizonError"
    ELSE IF not_before(ytr.index, yp.index) THEN "ValueError"
    ELSE ""

mase_score(yt, yp, ytr, s) ==
    LET e == mase_validate(yt, yp, ytr)
    IN  IF e # "" THEN Raise(e)
        ELSE Return(FDiv(FNeg(series_mean(Floats(np_abs(np_sub(yt.values, yp.values))))),
                         mae_naive(ytr.values, s)))

(* ----------------------------- smape_score ---------------------------- *)
\* faulty variant of nominator: |y_true + y_pred|
nominator_abs_sum(yt, yp) == np_abs(np_add(yt.values, yp.values))

nominator(yt, yp) == np_abs(np_sub(yt.values, yp.values))

\* faulty variants of denominator: |y_true + y_pred|, and a guard term added
denominator_abs_of_sum(yt, yp) == np_abs(np_add(yt.values, yp.values))

denominator_eps(yt, yp) ==
    [i \in 1..Len(yt.values) |-> Abs(yt.values[i]) + Abs(yp.values[i]) + 1]

denominator(yt, yp) == np_add(np_abs(yt.values), np_abs(yp.values))

\* faulty variant of smape_reduce: the factor 2 is missing
smape_reduce_unscaled(ratio) == FNeg(series_mean(ratio))

\* line 71: -2 * np.mean(ratio), ratio a pandas Series
smape_reduce(ratio) == FMul(FromInt(-2), series_mean(ratio))

smape_score(yt, yp) ==
    IF check_consistent_time_indices(yt, yp) THEN Raise("InconsistentIndexError")
    ELSE Return(smape_reduce(np_div(nominator(yt, yp), denominator(yt, yp))))

(* ------------------------------- inputs ------------------------------- *)
Series(index, values) == [index |-> index, values |-> values]

NoSeries == Series(<<>>, <<>>)

SeqsUpTo(S, maxlen) == UNION {[1..k -> S] : k \in 1..maxlen}

Range(a, k) == [i \in 1..k |-> a + i - 1]      \* the RangeIndex a .. a+k-1

Const(v, k) == [i \in 1..k |-> v]

\* index inputs: every time index over 0..MaxTime, values fixed
InitIndex ==
    /\ fn \in {"mase_score", "smape_score"}
    /\ y_true \in {Series(ix, Const(1, Len(ix))) : ix \in SeqsUpTo(0..MaxTime, MaxIdxLen)}
    /\ y_pred \in {Series(ix, Const(2, Len(ix))) : ix \in SeqsUpTo(0..MaxTime, MaxIdxLen)}
    /\ IF fn = "mase_score"
       THEN y_train \in {Series(ix, Range(1, Len(ix))) : ix \in SeqsUpTo(0..MaxTime, MaxIdxLen)}
       ELSE y_train = NoSeries
    /\ sp = 1

\* smape value inputs: one shared RangeIndex, every value in -MaxVal..MaxVal
InitSmape ==
    /\ fn = "smape_score"
    /\ \E fh \in 1..MaxFh :
          /\ y_true \in {Series(Range(0, fh), v) : v \in [1..fh -> (-MaxVal)..MaxVal]}
          /\ y_pred \in {Series(Range(0, fh), v) : v \in [1..fh -> (-MaxVal)..MaxVal]}
    /\ y_train = NoSeries
    /\ sp = 1

\* mase value inputs: training RangeIndex 0..n_obs-1, horizon right after it
InitMase ==
    /\ fn = "mase_score"
    /\ \E fh \in 1..MaxFh, n_obs \in 1..MaxObs :
          /\ y_train \in {Series(Range(0, n_obs), v) : v \in [1..n_obs -> 0..MaxTrainVal]}
          /\ y_true \in {Series(Range(n_obs, fh), v) : v \in [1..fh -> 0..MaxTrainVal]}
          /\ y_pred \in {Series(Range(n_obs, fh), v) : v \in [1..fh -> 0..MaxTrainVal]}
    /\ sp \in 1..MaxObs

\* the two worked scenarios of the documentation
ScenarioMase ==
    /\ fn = "mase_score"
    /\ y_train = Series(Range(0, 5), <<10, 12, 14, 16, 18>>)
    /\ y_true = Series(Range(5, 2), <<20, 22>>)
    /\ y_pred = Series(Range(5, 2), <<21, 21>>)
    /\ sp = 1

ScenarioSmape ==
    /\ fn = "smape_score"
    /\ y_true = Series(Range(0, 2), <<10, 0>>)
    /\ y_pred = Series(Range(0, 2), <<10, 2>>)
    /\ y_train = NoSeries
    /\ sp = 1

Init ==
    /\ pc = "call"
    /\ result = NoResult
    /\ \/ InitIndex
       \/ InitSmape
       \/ InitMase
       \/ ScenarioMase
       \/ ScenarioSmape

(* ------------------------------ actions ------------------------------- *)
MaseCall ==
    /\ pc = "call"
    /\ fn = "mase_score"
    /\ result' = mase_score(y_true, y_pred, y_train, sp)
    /\ pc' = "done"
    /\ UNCHANGED <<fn, y_true, y_pred, y_train, sp>>

SmapeCall ==
    /\ pc = "call"
    /\ fn = "smape_score"
    /\ result' = smape_score(y_true, y_pred)
    /\ pc' = "done"
    /\ UNCHANGED <<fn, y_true, y_pred, y_train, sp>>

Next == MaseCall \/ SmapeCall

Spec == Init /\ [][Next]_vars

(* ------------------------ vocabulary of the claims -------------------- *)
Done == pc = "done"

n_obs == Len(y_train.values)

fh == Len(y_true.values)

SameIndex == y_true.index = y_pred.index

Sorted(index) == \A i \in 1..(Len(index) - 1) : index[i] <= index[i + 1]

TrainBeforePred ==
    \A i \in 1..Len(y_train.index), j \in 1..Len(y_pred.index) :
        y_train.index[i] < y_pred.index[j]

\* the inputs of a mase_score call pass its whole validation
MaseValid ==
    /\ fn = "mase_score"
    /\ SameIndex
    /\ Sorted(y_train.index)
    /\ Sorted(y_pred.index)
    /\ TrainBeforePred

\* sum over i = s+1 .. k (1-based) of |train[i] - train[i - s]|
RECURSIVE NaiveAbsSum(_, _, _)
NaiveAbsSum(train, s, k) ==
    IF k <= s THEN 0
    ELSE Abs(train[k] - train[k - s]) + NaiveAbsSum(train, s, k - 1)

\* sum over i = 1 .. k of |a[i] - b[i]|
RECURSIVE AbsErrSum(_, _, _)
AbsErrSum(a, b, k) ==
    IF k = 0 THEN 0 ELSE Abs(a[k] - b[k]) + AbsErrSum(a, b, k - 1)

NaiveErr == NaiveAbsSum(y_train.values, sp, n_obs)

PredErr == AbsErrSum(y_true.values, y_pred.values, fh)

BothZero(i) == y_true.values[i] = 0 /\ y_pred.values[i] = 0

NoBothZero == \A i \in 1..fh : ~BothZero(i)

\* sum over i = 1 .. k of |a[i] - b[i]| / (|a[i]| + |b[i]|), no point both zero
RECURSIVE RatioSum(_, _, _)
RatioSum(a, b, k) ==
    IF k = 0 THEN FromInt(0)
    ELSE FAdd(RatioSum(a, b, k - 1), Norm(Abs(a[k] - b[k]), Abs(a[k]) + Abs(b[k])))

Scaled(c, y) == Series(y.index, [i \in 1..Len(y.values) |-> c * y.values[i]])

(* ------------------------------- claims ------------------------------- *)
\* C1: a validated mase_score call with 1 <= sp < n_obs and a nonzero naive
\* error returns -(mean of |y_true_i - y_pred_i| over the fh points) divided
\* by (mean of |y_train[i] - y_train[i - sp]| over the n_obs - sp points
\* i = sp .. n_obs-1); the documented scenario returns -1/2.
C1_MaseFormula ==
    /\ (Done /\ MaseValid /\ sp >= 1 /\ sp < n_obs /\ NaiveErr # 0)
          => result = Return(Norm(-(PredErr * (n_obs - sp)), fh * NaiveErr))
    /\ (Done /\ ScenarioMase) => result = Return([n |-> -1, d |-> 2])

C1_Witness ==
    /\ Done /\ MaseValid /\ sp = 2 /\ n_obs > 3 - 1 /\ fh > 1
    /\ NaiveErr # 0 /\ PredErr # 0
    /\ result.kind = "return" /\ result.score.d > 1

\* C2: a smape_score call on a shared index with no point where both values
\* are zero returns -2 times the mean over all fh points of
\* |y_true_i - y_pred_i| / (|y_true_i| + |y_pred_i|); the documented
\* scenario returns -1.
C2_SmapeFormula ==
    /\ (Done /\ fn = "smape_score" /\ SameIndex /\ NoBothZero)
          => result = Return(FMul(FromInt(-2),
                                  FDiv(RatioSum(y_true.values, y_pred.values, fh),
                                       FromInt(fh))))
    /\ (Done /\ ScenarioSmape) => result = Return(FromInt(-1))

C2_Witness ==
    /\ Done /\ fn = "smape_score" /\ SameIndex /\ NoBothZero /\ fh > 1
    /\ y_true.values[1] # y_pred.values[1]
    /\ result.kind = "return" /\ result.score.d > 1

\* C3: with differing time indices of y_true and y_pred both functions raise
\* the index-inconsistency error and return no score, in mase_score also when
\* y_train is not before y_pred.
C3_IndexMismatchRaises ==
    (Done /\ ~SameIndex) => result = Raise("InconsistentIndexError")

C3_Witness ==
    /\ Done /\ fn = "mase_score" /\ ~SameIndex /\ ~TrainBeforePred
    /\ Len(y_true.index) = Len(y_pred.index)
    /\ result.kind = "raise"

\* C4: mase_score on index-consistent y_true, y_pred and ordered indices raises
\* the ordering ValueError when y_train's last timestamp is >= y_pred's first
\* one (equality included); whatever the order inside the indices such a call
\* returns no score; and the ordering error is never raised when every
\* training timestamp is strictly before every timestamp of y_pred.
C4_OrderingError ==
    /\ (Done /\ fn = "mase_score" /\ SameIndex
             /\ Sorted(y_train.index) /\ Sorted(y_pred.index)
             /\ y_train.index[n_obs] >= y_pred.index[1])
          => result = Raise("ValueError")
    /\ (Done /\ fn = "mase_score" /\ SameIndex /\ ~TrainBeforePred)
          => result.kind = "raise"
    /\ (Done /\ fn = "mase_score" /\ TrainBeforePred)
          => result.err # "ValueError"

C4_Witness ==
    /\ Done /\ fn = "mase_score" /\ SameIndex
    /\ Sorted(y_train.index) /\ Sorted(y_pred.index)
    /\ y_train.index[n_obs] = y_pred.index[1]
    /\ result = Raise("ValueError")

C6_Bounded ==
    (Done /\ fn = "smape_score" /\ SameIndex /\ NoBothZero)
        => /\ result.kind = "return"
           /\ IsFinite(result.score)
           /\ FLeq(FromInt(-2), result.score)
           /\ FLeq(result.score, FromInt(0))

C6_Witness ==
    /\ Done /\ fn = "smape_score" /\ SameIndex /\ NoBothZero /\ fh > 1
    /\ y_true.values[1] * y_pred.values[1] < 0
    /\ IsFinite(result.score) /\ result.score.d > 1

\* C7 as stated: one point with y_true_i = 0 and y_pred_i = 0 makes
\* smape_score return NaN, whatever the values at the other points.
\* (The code returns NaN only when every point is 0/0: series_mean leaves
\* the NaN points out.)
C7_AnyBothZeroIsNaN ==
    (Done /\ fn = "smape_score" /\ SameIndex /\ \E i \in 1..fh : BothZero(i))
        => result = Return(NaN)

\* C8: smape_score is scale-invariant: scaling y_true and y_pred by one
\* positive constant c leaves the outcome of the call unchanged.
C8_ScaleInvariant ==
    (Done /\ fn = "smape_score" /\ SameIndex)
        => \A c \in 2..MaxScale :
               smape_score(Scaled(c, y_true), Scaled(c, y_pred)) = result

C8_Witness ==
    /\ Done /\ fn = "smape_score" /\ SameIndex /\ fh > 1
    /\ IsFinite(result.score) /\ result.score.d > 1
    /\ \E i \in 1..fh : y_true.values[i] = 0 /\ y_pred.values[i] # 0

\* C9: a validated mase_score call with sp >= 1 and n_obs >= sp + 1 raises
\* nothing; its score is finite unless the naive error is 0, and then it is
\* -inf when the forecast error is positive and NaN when that is 0 too.
C9_FiniteUnlessNaiveZero ==
    (Done /\ MaseValid /\ sp >= 1 /\ n_obs >= sp + 1)
        => /\ result.kind = "return"
           /\ NaiveErr # 0 => IsFinite(result.score)
           /\ (NaiveErr = 0 /\ PredErr > 0) => result.score = NInf
           /\ (NaiveErr = 0 /\ PredErr = 0) => result.score = NaN

C9_Witness ==
    /\ Done /\ MaseValid /\ sp = 2 /\ n_obs >= sp + 1
    /\ y_train.values[1] # y_train.values[2]
    /\ NaiveErr = 0 /\ PredErr > 0
    /\ result = Return(NInf)

\* C10: mase_score never compares sp with n_obs: a validated call returns a
\* score whatever sp is, and with sp >= n_obs >= 1 the naive mean runs over
\* no term and the score is NaN.
C10_NoSpCheck ==
    (Done /\ MaseValid /\ sp >= 1 /\ n_obs >= 1)
        => /\ result.kind = "return"
           /\ sp >= n_obs => result = Return(NaN)

C10_Witness ==
    /\ Done /\ MaseValid /\ sp > n_obs /\ n_obs > 1 /\ PredErr > 0
    /\ y_train.values[1] # y_train.values[2]
    /\ result = Return(NaN)

====
